---------------------------- MODULE Spec2Model ----------------------------
(***************************************************************************)
(* X3DomHelper (src/X3DomHelper.js): a controller over one x3dom scene.    *)
(*                                                                         *)
(* Part 1: the load-completion signal (this.inlineLoaded) built by the     *)
(* constructor, the load listeners it registers, and addInlineListener,    *)
(* which attaches a callback once the signal has resolved.                 *)
(***************************************************************************)
EXTENDS Integers, Sequences, FiniteSets, TLC

\* ------------------------------------------------------------------ bounds
\* Largest number of <inline> elements under the scene element.
MaxInline == 2
\* Largest number of load events one <inline> element fires.
MaxLoads == 2
\* Largest number of addInlineListener calls.
MaxCalls == 2
\* Number of <shape> elements an inline sub-scene materialises when loaded.
ShapesPerInline == 1

\* --------------------------------------------------------------- variables
VARIABLES
    constructed,    \* the constructor has returned
    inlineCount,    \* number of <inline> elements under this.dom
    fired,          \* per inline element: load events it has fired so far
    listeners,      \* inline elements carrying the constructor's load listener
    loadedCnt,      \* the executor's closure variable loadedCnt
    inlineLoaded,   \* this.inlineLoaded: [state, settles]
    delivered,      \* load events delivered to the constructor's listeners
    resolveCalls,   \* invocations of resolve()
    listenerErrors, \* exceptions raised inside a load listener
    reactions,      \* then-callbacks waiting for inlineLoaded
    jobs,           \* then-callbacks queued as microtasks
    attached,       \* listeners attached by addInlineListener's callback
    thenErrors,     \* exceptions raised inside a then-callback
    calls           \* addInlineListener calls made so far

loadVars == <<constructed, inlineCount, fired, listeners, loadedCnt,
              inlineLoaded, delivered, resolveCalls, listenerErrors,
              reactions, jobs, attached, thenErrors, calls>>

\* Part 2 (appearance operations): per shape element, the content of the
\* place its <appearance> child occupies and the stash el.origAppearance.
VARIABLES
    slot,           \* per shape: what stands where its <appearance> child was
    origAppearance, \* per shape: el.origAppearance
    runLen,         \* per shape: highlightShape calls since its last restore
    runStart,       \* per shape: slot content before the first of those calls
    lastShapeOp     \* the last appearance operation and what it found

shapeVars == <<slot, origAppearance, runLen, runStart, lastShapeOp>>

\* Part 4 (camera operations): the view, the clock and the timers.
VARIABLES
    viewMatrix,     \* what this.runtime.viewMatrix() returns
    initialView,    \* the view the Viewpoint tag defines (resetView)
    needRender,     \* camera.canvas.doc.needRender
    anim,           \* the animated transition animateTo has started
    lastCall,       \* the last camera call and what it did
    prevCall,       \* the camera call before it
    ops,            \* camera calls made so far
    now,            \* the clock, in ms
    timers,         \* callbacks setTimeout holds
    turns,          \* rotateRoundY calls so far: duration and start by turn
    turnLog         \* by turn, the rotate calls it has issued

camVars == <<viewMatrix, initialView, needRender, anim, lastCall, prevCall,
             ops, now, timers, turns, turnLog>>

vars == <<loadVars, shapeVars, camVars>>

\* What the operations of one part leave alone.
nonLoadVars == <<shapeVars, camVars>>
nonShapeVars == <<loadVars, camVars>>
nonCamVars == <<loadVars, shapeVars>>

Inlines == 1..MaxInline

\* ----------------------------------------------------------- the promise
\* A promise that has not been created yet.
NoPromise == [state |-> "none", settles |-> 0]

\* new Promise(...): pending, settled zero times.
NewPromise == [state |-> "pending", settles |-> 0]

\* The resolve function handed to the executor: the first call fulfils the
\* promise, every later call is ignored.
Resolve(p) ==
    IF p.state = "pending"
    THEN [state |-> "fulfilled", settles |-> p.settles + 1]
    ELSE p

\* ------------------------------------------------------- the constructor
\* if (inlineList.length == 0) resolve();
ExecutorResolvesAtOnce_Never(len) == FALSE

ExecutorResolvesAtOnce(len) == len = 0

\* The load listener: if (++loadedCnt >= inlineList.length) resolve();
\* cnt is loadedCnt before the event.
LoadListener_OffByOne(cnt, len) ==
    [cnt |-> cnt + 1, resolve |-> cnt + 1 >= len - 1, throws |-> FALSE]

LoadListener_ThrowsOnExtra(cnt, len) ==
    [cnt |-> cnt + 1, resolve |-> cnt + 1 >= len, throws |-> cnt + 1 > len]

LoadListener(cnt, len) ==
    [cnt |-> cnt + 1, resolve |-> cnt + 1 >= len, throws |-> FALSE]

\* function X3DomHelper(domId)
Construct ==
    /\ ~constructed
    /\ constructed' = TRUE
    /\ LET p == NewPromise
       IN  /\ inlineLoaded' = IF ExecutorResolvesAtOnce(inlineCount)
                              THEN Resolve(p) ELSE p
           /\ resolveCalls' = IF ExecutorResolvesAtOnce(inlineCount)
                              THEN resolveCalls + 1 ELSE resolveCalls
    /\ loadedCnt' = 0
    /\ listeners' = 1..inlineCount
    /\ UNCHANGED <<inlineCount, fired, delivered, listenerErrors, reactions,
                   jobs, attached, thenErrors, calls>>
    /\ UNCHANGED nonLoadVars

\* An <inline> element fires its load event (the engine has merged the
\* loaded sub-scene under it).  The constructor's listener runs when it is
\* registered on that element.
LoadEvent(i) ==
    /\ i \in 1..inlineCount
    /\ fired[i] < MaxLoads
    /\ fired' = [fired EXCEPT ![i] = @ + 1]
    /\ IF i \in listeners
       THEN LET r == LoadListener(loadedCnt, inlineCount)
                p == IF r.resolve /\ ~r.throws
                     THEN Resolve(inlineLoaded) ELSE inlineLoaded
            IN  /\ loadedCnt' = r.cnt
                /\ delivered' = delivered + 1
                /\ listenerErrors' = IF r.throws THEN listenerErrors + 1
                                     ELSE listenerErrors
                /\ resolveCalls' = IF r.resolve /\ ~r.throws
                                   THEN resolveCalls + 1 ELSE resolveCalls
                /\ inlineLoaded' = p
                \* fulfilment queues every waiting then-callback
                /\ IF inlineLoaded.state = "pending" /\ p.state = "fulfilled"
                   THEN /\ jobs' = jobs \o reactions
                        /\ reactions' = <<>>
                   ELSE UNCHANGED <<jobs, reactions>>
       ELSE UNCHANGED <<loadedCnt, delivered, listenerErrors, resolveCalls,
                        inlineLoaded, jobs, reactions>>
    /\ UNCHANGED <<constructed, inlineCount, listeners, attached,
                   thenErrors, calls>>
    /\ UNCHANGED nonLoadVars

\* ----------------------------------------------------- addInlineListener
\* The inlineSelector argument: 0 stands for the default 'inline', j > 0 for
\* a selector naming the j-th inline element.
InlineSelectors == 0..MaxInline

\* this.dom.querySelector(inlineSelector): the first match, 0 for null.
QuerySelectorInline(sel) ==
    IF sel = 0
    THEN (IF inlineCount >= 1 THEN 1 ELSE 0)
    ELSE (IF sel <= inlineCount THEN sel ELSE 0)

\* inline.querySelectorAll('shape'): the shapes merged under a loaded inline.
ShapesUnder(i) == IF fired[i] > 0 THEN 1..ShapesPerInline ELSE {}

\* addInlineListener(event, callback, inlineSelector, targetSelector)
AddInlineListener(sel) ==
    /\ constructed
    /\ calls < MaxCalls
    /\ calls' = calls + 1
    /\ LET r == [event |-> "click", callback |-> calls + 1, sel |-> sel]
       IN  IF inlineLoaded.state = "pending"
           THEN /\ reactions' = Append(reactions, r)
                /\ UNCHANGED jobs
           ELSE /\ jobs' = Append(jobs, r)
                /\ UNCHANGED reactions
    /\ UNCHANGED <<constructed, inlineCount, fired, listeners, loadedCnt,
                   inlineLoaded, delivered, resolveCalls, listenerErrors,
                   attached, thenErrors>>
    /\ UNCHANGED nonLoadVars

\* The then-callback of addInlineListener, run as a microtask.
RunThenCallback ==
    /\ jobs # <<>>
    /\ LET r == Head(jobs)
           inline == QuerySelectorInline(r.sel)
       IN  IF inline = 0
           THEN \* null.querySelectorAll: TypeError inside the callback
                /\ thenErrors' = thenErrors + 1
                /\ UNCHANGED attached
           ELSE /\ attached' = attached \cup
                      { [inline |-> inline, shape |-> s, event |-> r.event,
                         callback |-> r.callback] : s \in ShapesUnder(inline) }
                /\ UNCHANGED thenErrors
    /\ jobs' = Tail(jobs)
    /\ UNCHANGED <<constructed, inlineCount, fired, listeners, loadedCnt,
                   inlineLoaded, delivered, resolveCalls, listenerErrors,
                   reactions, calls>>
    /\ UNCHANGED nonLoadVars

\* ---------------------------------------------------------- specification
InitLoad ==
    /\ constructed = FALSE
    /\ inlineCount \in 0..MaxInline
    /\ fired = [i \in Inlines |-> 0]
    /\ listeners = {}
    /\ loadedCnt = 0
    /\ inlineLoaded = NoPromise
    /\ delivered = 0
    /\ resolveCalls = 0
    /\ listenerErrors = 0
    /\ reactions = <<>>
    /\ jobs = <<>>
    /\ attached = {}
    /\ thenErrors = 0
    /\ calls = 0

NextLoad ==
    \/ Construct
    \/ \E i \in Inlines : LoadEvent(i)
    \/ \E sel \in InlineSelectors : AddInlineListener(sel)
    \/ RunThenCallback

\* The load state while no load operation is under study: a constructed
\* controller over a scene without inline elements.
IdleLoad ==
    /\ constructed = TRUE
    /\ inlineCount = 0
    /\ fired = [i \in Inlines |-> 0]
    /\ listeners = {}
    /\ loadedCnt = 0
    /\ inlineLoaded = Resolve(NewPromise)
    /\ delivered = 0
    /\ resolveCalls = 1
    /\ listenerErrors = 0
    /\ reactions = <<>>
    /\ jobs = <<>>
    /\ attached = {}
    /\ thenErrors = 0
    /\ calls = 0

\* ======================================================================
\* Part 2: highlightShape / restoreShapeColor
\* ======================================================================
\* Number of shape elements the appearance operations are applied to.
NumShapeEls == 1
\* Largest number of highlightShape calls between two restores.
MaxRun == 3

ShapeEls == 1..NumShapeEls

\* A hex colour line is a sequence of hex digits (their values).  The
\* colours are non-empty strings: on the empty string hex.match gives null
\* and hexToRgbLine throws a TypeError.
DefaultColor == <<15, 15, 0, 0, 0, 0>>

Colors ==
    { DefaultColor, <<0, 0, 8, 0, 15, 15>>, <<8, 0, 8, 0, 8, 0>>, <<15, 0, 0>> }

NaN == <<"NaN">>

\* hex.match(/.{1,2}/g): the digits cut into pieces of two, the last piece
\* of one digit when the length is odd; null for the empty string.
NumParts(hex) == (Len(hex) + 1) \div 2

Part(hex, i) ==
    SubSeq(hex, 2 * i - 1, IF 2 * i <= Len(hex) THEN 2 * i ELSE Len(hex))

\* parseInt(part, 16)
RECURSIVE ParseInt16(_)
ParseInt16(part) ==
    IF part = <<>> THEN 0
    ELSE 16 * ParseInt16(SubSeq(part, 1, Len(part) - 1)) + part[Len(part)]

\* parseInt(parts[i], 16) / 255: the byte over 255, NaN for a missing piece.
Channel(hex, i) ==
    IF i <= NumParts(hex) THEN <<ParseInt16(Part(hex, i)), 255>> ELSE NaN

\* hexToRgbLine(hex): the three channels joined by blanks.
hexToRgbLine(hex) == <<Channel(hex, 1), Channel(hex, 2), Channel(hex, 3)>>

\* parts is null for the empty string: parts[0] raises a TypeError.
hexToRgbLineThrows(hex) == Len(hex) = 0

\* Markup of an <appearance> element, as outerHTML serialises it.
Markup(line, texture) ==
    [tag |-> "appearance", diffuseColor |-> line, texture |-> texture]

\* '<Appearance><Material diffuseColor="' + rgb + '"></Material></Appearance>'
HighlightMarkup(rgb) == Markup(rgb, FALSE)

\* Appearance markup the scene may hold before any highlight.
Originals ==
    { Markup(<<<<204, 255>>, <<204, 255>>, <<204, 255>>>>, TRUE),
      HighlightMarkup(hexToRgbLine(DefaultColor)) }

\* Values of el.origAppearance.
Undefined == [kind |-> "undefined"]
Null == [kind |-> "null"]
Str(m) == [kind |-> "string", markup |-> m]

\* !el.origAppearance
Falsy(v) == v.kind \in {"undefined", "null"}

\* What stands in the place of the <appearance> child.
Element(m) == [kind |-> "element", markup |-> m]
Removed == [kind |-> "none"]
TextNode(t) == [kind |-> "text", text |-> t]

\* el.querySelector('appearance') finds an element.
HasAppearance(c) == c.kind = "element"

\* appearance.outerHTML = v: the element is replaced by the nodes parsed
\* from v.  null is the empty string (nothing); undefined is the text
\* "undefined"; serialised markup parses back to the element.
SetOuterHTML(v) ==
    CASE v.kind = "null" -> Removed
      [] v.kind = "undefined" -> TextNode("undefined")
      [] v.kind = "string" -> Element(v.markup)

\* if (!el.origAppearance) el.origAppearance = appearance.outerHTML;
StashOnHighlight_Always(stash, cur) == Str(cur.markup)

StashOnHighlight(stash, cur) ==
    IF Falsy(stash) THEN Str(cur.markup) ELSE stash

\* appearance.outerHTML = el.origAppearance;
RestoredContent_Guarded(stash, cur) ==
    IF Falsy(stash) THEN cur ELSE SetOuterHTML(stash)

RestoredContent(stash, cur) == SetOuterHTML(stash)

ShapeOp(op, el, threw) ==
    [op |-> op, el |-> el, threw |-> threw,
     stashBefore |-> origAppearance[el], slotBefore |-> slot[el],
     runLen |-> runLen[el], runStart |-> runStart[el]]

\* X3DomHelper.highlightShape(el, color)
HighlightShape(el, color) ==
    /\ runLen[el] < MaxRun
    /\ runLen' = [runLen EXCEPT ![el] = @ + 1]
    /\ runStart' = IF runLen[el] = 0
                   THEN [runStart EXCEPT ![el] = slot[el]] ELSE runStart
    /\ IF hexToRgbLineThrows(color) \/ ~HasAppearance(slot[el])
       THEN \* parts[0] of null, or outerHTML of null: TypeError
            /\ lastShapeOp' = ShapeOp("highlight", el, "TypeError")
            /\ UNCHANGED <<slot, origAppearance>>
       ELSE /\ lastShapeOp' = ShapeOp("highlight", el, "none")
            /\ origAppearance' =
                 [origAppearance EXCEPT
                    ![el] = StashOnHighlight(origAppearance[el], slot[el])]
            /\ slot' = [slot EXCEPT
                    ![el] = SetOuterHTML(Str(HighlightMarkup(hexToRgbLine(color))))]
    /\ UNCHANGED nonShapeVars

\* X3DomHelper.restoreShapeColor(el)
RestoreShapeColor(el) ==
    /\ runLen' = [runLen EXCEPT ![el] = 0]
    /\ UNCHANGED runStart
    /\ IF ~HasAppearance(slot[el])
       THEN \* outerHTML of null: TypeError
            /\ lastShapeOp' = ShapeOp("restore", el, "TypeError")
            /\ UNCHANGED <<slot, origAppearance>>
       ELSE /\ lastShapeOp' = ShapeOp("restore", el, "none")
            /\ slot' = [slot EXCEPT
                    ![el] = RestoredContent(origAppearance[el], slot[el])]
            /\ origAppearance' = [origAppearance EXCEPT ![el] = Null]
    /\ UNCHANGED nonShapeVars

InitShape ==
    /\ slot \in [ShapeEls -> {Element(m) : m \in Originals}]
    /\ origAppearance = [el \in ShapeEls |-> Undefined]
    /\ runLen = [el \in ShapeEls |-> 0]
    /\ runStart = slot
    /\ lastShapeOp = [op |-> "none", el |-> 0, threw |-> "none",
                      stashBefore |-> Undefined, slotBefore |-> Removed,
                      runLen |-> 0, runStart |-> Removed]

\* The appearance state while no appearance operation is under study.
IdleShape ==
    /\ slot = [el \in ShapeEls |-> Removed]
    /\ origAppearance = [el \in ShapeEls |-> Undefined]
    /\ runLen = [el \in ShapeEls |-> 0]
    /\ runStart = slot
    /\ lastShapeOp = [op |-> "none", el |-> 0, threw |-> "none",
                      stashBefore |-> Undefined, slotBefore |-> Removed,
                      runLen |-> 0, runStart |-> Removed]

NextShape ==
    \/ \E el \in ShapeEls, color \in Colors : HighlightShape(el, color)
    \/ \E el \in ShapeEls : RestoreShapeColor(el)

\* ======================================================================
\* Part 3: JavaScript Numbers (IEEE-754 binary64), as the camera
\* operations compute with them.  A Number is zero or sign * m * 2^e with
\* a significand m of MantBits bits, held as limbs of LimbBits bits, least
\* significant first.  Infinities, NaN and subnormals are outside the
\* values the operations below are applied to.
\* ======================================================================
LimbBits == 15
Base == 32768
MantBits == 53

RECURSIVE Pow2(_)
Pow2(n) == IF n = 0 THEN 1 ELSE 2 * Pow2(n - 1)


RECURSIVE BNorm(_)
BNorm(x) ==
    IF x = <<>> THEN <<>>
    ELSE IF x[Len(x)] = 0 THEN BNorm(SubSeq(x, 1, Len(x) - 1)) ELSE x

RECURSIVE BFromNat(_)
BFromNat(n) == IF n = 0 THEN <<>> ELSE <<n % Base>> \o BFromNat(n \div Base)

RECURSIVE BAddC(_, _, _)
BAddC(x, y, c) ==
    IF x = <<>> /\ y = <<>> THEN (IF c = 0 THEN <<>> ELSE <<c>>)
    ELSE LET a == IF x = <<>> THEN 0 ELSE Head(x)
             b == IF y = <<>> THEN 0 ELSE Head(y)
             t == a + b + c
         IN  <<t % Base>> \o
             BAddC(IF x = <<>> THEN <<>> ELSE Tail(x),
                   IF y = <<>> THEN <<>> ELSE Tail(y), t \div Base)

BAdd(x, y) == BAddC(x, y, 0)

\* x - y for x >= y
RECURSIVE BSubC(_, _, _)
BSubC(x, y, c) ==
    IF x = <<>> THEN <<>>
    ELSE LET b == IF y = <<>> THEN 0 ELSE Head(y)
             t == Head(x) - b - c
         IN  <<IF t < 0 THEN t + Base ELSE t>> \o
             BSubC(Tail(x), IF y = <<>> THEN <<>> ELSE Tail(y),
                   IF t < 0 THEN 1 ELSE 0)

BSub(x, y) == BNorm(BSubC(x, y, 0))

\* x >= y, both without leading zero limbs
RECURSIVE BGeqFrom(_, _, _)
BGeqFrom(x, y, i) ==
    IF i = 0 THEN TRUE
    ELSE IF x[i] # y[i] THEN x[i] > y[i] ELSE BGeqFrom(x, y, i - 1)

BGeq(x, y) ==
    IF Len(x) # Len(y) THEN Len(x) > Len(y) ELSE BGeqFrom(x, y, Len(x))

RECURSIVE BMulSmallC(_, _, _)
BMulSmallC(x, k, c) ==
    IF x = <<>> THEN (IF c = 0 THEN <<>> ELSE <<c>>)
    ELSE LET t == Head(x) * k + c
         IN  <<t % Base>> \o BMulSmallC(Tail(x), k, t \div Base)

RECURSIVE BMul(_, _)
BMul(x, y) ==
    IF y = <<>> \/ x = <<>> THEN <<>>
    ELSE BAdd(BMulSmallC(x, Head(y), 0),
              LET r == BMul(x, Tail(y)) IN IF r = <<>> THEN <<>> ELSE <<0>> \o r)

RECURSIVE NatBits(_)
NatBits(n) == IF n = 0 THEN 0 ELSE 1 + NatBits(n \div 2)

BitLen(x) ==
    IF x = <<>> THEN 0 ELSE LimbBits * (Len(x) - 1) + NatBits(x[Len(x)])

\* bit k (from 0) of x
BBit(x, k) ==
    LET i == k \div LimbBits + 1
    IN  IF i > Len(x) THEN 0 ELSE (x[i] \div Pow2(k % LimbBits)) % 2

\* some bit below bit k of x is set
BAnyBelow(x, k) ==
    LET q == k \div LimbBits
        r == k % LimbBits
    IN  \/ \E i \in 1..q : i <= Len(x) /\ x[i] # 0
        \/ (q + 1 <= Len(x) /\ x[q + 1] % Pow2(r) # 0)

RECURSIVE ShrLimbs(_, _)
ShrLimbs(y, r) ==
    IF y = <<>> THEN <<>>
    ELSE <<(Head(y) \div Pow2(r)) +
           (IF Len(y) > 1 THEN (y[2] % Pow2(r)) * Pow2(LimbBits - r) ELSE 0)>>
         \o ShrLimbs(Tail(y), r)

\* floor(x / 2^n)
BShr(x, n) ==
    LET q == n \div LimbBits
    IN  IF q >= Len(x) THEN <<>>
        ELSE BNorm(ShrLimbs(SubSeq(x, q + 1, Len(x)), n % LimbBits))

RECURSIVE ZeroLimbs(_)
ZeroLimbs(n) == IF n = 0 THEN <<>> ELSE <<0>> \o ZeroLimbs(n - 1)

\* x * 2^n
BShl(x, n) ==
    IF x = <<>> THEN <<>>
    ELSE ZeroLimbs(n \div LimbBits) \o BMulSmallC(x, Pow2(n % LimbBits), 0)

\* ---- Numbers
Zero == [s |-> 0, m |-> <<>>, e |-> 0]

\* sign * n * 2^e rounded to the nearest binary64 (ties to even); sticky
\* says that the exact value lies strictly above n * 2^e in magnitude.
Round(sign, n, e, sticky) ==
    LET len == BitLen(n)
    IN  IF len <= MantBits
        THEN [s |-> sign, m |-> BShl(n, MantBits - len), e |-> e - (MantBits - len)]
        ELSE LET sh == len - MantBits
                 q == BShr(n, sh)
                 up == /\ BBit(n, sh - 1) = 1
                       /\ (sticky \/ BAnyBelow(n, sh - 1) \/ BBit(q, 0) = 1)
                 q1 == IF up THEN BAdd(q, <<1>>) ELSE q
             IN  IF BitLen(q1) > MantBits
                 THEN [s |-> sign, m |-> BShr(q1, 1), e |-> e + sh + 1]
                 ELSE [s |-> sign, m |-> q1, e |-> e + sh]

DFromInt(n) ==
    IF n = 0 THEN Zero
    ELSE Round(IF n < 0 THEN -1 ELSE 1, BFromNat(IF n < 0 THEN -n ELSE n), 0, FALSE)

DMul(a, b) ==
    IF a.s = 0 \/ b.s = 0 THEN Zero
    ELSE Round(a.s * b.s, BMul(a.m, b.m), a.e + b.e, FALSE)

\* x divided by a natural d < Base, from the most significant limb down:
\* [q, r] with x = q * d + r (q may carry leading zero limbs)
RECURSIVE BDivSmall(_, _)
BDivSmall(x, d) ==
    IF x = <<>> THEN [q |-> <<>>, r |-> 0]
    ELSE LET hi == BDivSmall(Tail(x), d)
             t == hi.r * Base + Head(x)
         IN  [q |-> <<t \div d>> \o hi.q, r |-> t % d]

\* number of zero bits at the low end of x # 0
RECURSIVE NatTrailingZeros(_)
NatTrailingZeros(n) == IF n % 2 = 1 THEN 0 ELSE 1 + NatTrailingZeros(n \div 2)

RECURSIVE BTrailingZeros(_)
BTrailingZeros(x) ==
    IF Head(x) = 0 THEN LimbBits + BTrailingZeros(Tail(x))
    ELSE NatTrailingZeros(Head(x))

GuardBits == LimbBits + 2

\* a / b for a divisor b = k * 2^t with an odd natural k < Base
DDiv(a, b) ==
    IF a.s = 0 THEN Zero
    ELSE LET tz == BTrailingZeros(b.m)
             k == BShr(b.m, tz)[1]
             st == BDivSmall(BShl(a.m, GuardBits), k)
         IN  Round(a.s * b.s, BNorm(st.q), a.e - GuardBits - (b.e + tz), st.r # 0)

DAbs(a) == [a EXCEPT !.s = IF a.s = 0 THEN 0 ELSE 1]

DAdd(a, b) ==
    IF a.s = 0 THEN b
    ELSE IF b.s = 0 THEN a
    ELSE LET hi == IF a.e >= b.e THEN a ELSE b
             lo == IF a.e >= b.e THEN b ELSE a
             d == hi.e - lo.e
         IN  IF d > MantBits + 2 THEN hi
             ELSE LET x == BShl(hi.m, d)
                      y == lo.m
                  IN  IF hi.s = lo.s THEN Round(hi.s, BAdd(x, y), lo.e, FALSE)
                      ELSE IF x = y THEN Zero
                      ELSE IF BGeq(x, y) THEN Round(hi.s, BSub(x, y), lo.e, FALSE)
                      ELSE Round(lo.s, BSub(y, x), lo.e, FALSE)


\* a < b
DLess(a, b) ==
    IF a.s # b.s THEN a.s < b.s
    ELSE IF a.s = 0 THEN FALSE
    ELSE LET absLess(x, y) ==
                 IF x.e # y.e THEN x.e < y.e
                 ELSE x.m # y.m /\ BGeq(y.m, x.m)
         IN  IF a.s = 1 THEN absLess(a, b) ELSE absLess(b, a)

One == DFromInt(1)

\* The position of a non-zero Number among the Numbers of its sign, counted
\* from the exponent floor: consecutive Numbers have consecutive positions.
Ordinal(a, floor) ==
    BAdd(BShl(BFromNat(a.e - floor), MantBits - 1),
         BSub(a.m, BShl(<<1>>, MantBits - 1)))

\* a and b are at most n Numbers apart (n units in the last place).
WithinUlps(a, b, n) ==
    IF a.s = 0 \/ b.s = 0 THEN a = b
    ELSE /\ a.s = b.s
         /\ LET floor == IF a.e < b.e THEN a.e ELSE b.e
                x == Ordinal(a, floor)
                y == Ordinal(b, floor)
            IN  IF BGeq(x, y) THEN BGeq(BFromNat(n), BSub(x, y))
                ELSE BGeq(BFromNat(n), BSub(y, x))

\* ======================================================================
\* Part 4: the camera operations
\* ======================================================================
\* Largest number of zoom and resetView calls.
MaxZoomCalls == 2
\* Largest number of rotate and rotateRoundY calls.
MaxRotateCalls == 1
\* Latest instant (ms) of the clock besides those around the default turn.
MaxNow == 1

\* ---- the engine's matrices (x3dom.fields.SFMatrix4f), rows of Numbers
Mat(r1, r2, r3, r4) ==
    << <<DFromInt(r1[1]), DFromInt(r1[2]), DFromInt(r1[3]), DFromInt(r1[4])>>,
       <<DFromInt(r2[1]), DFromInt(r2[2]), DFromInt(r2[3]), DFromInt(r2[4])>>,
       <<DFromInt(r3[1]), DFromInt(r3[2]), DFromInt(r3[3]), DFromInt(r3[4])>>,
       <<DFromInt(r4[1]), DFromInt(r4[2]), DFromInt(r4[3]), DFromInt(r4[4])>> >>

\* SFMatrix4f.mult: this * that, each entry the sum of four products,
\* added from the first on.
RECURSIVE MultSum(_, _, _, _, _)
MultSum(A, B, i, j, k) ==
    IF k = 1 THEN DMul(A[i][1], B[1][j])
    ELSE DAdd(MultSum(A, B, i, j, k - 1), DMul(A[i][k], B[k][j]))

MultEntry(A, B, i, j) == MultSum(A, B, i, j, 4)

RECURSIVE MultRowFrom(_, _, _, _)
MultRowFrom(A, B, i, j) ==
    IF j > 4 THEN <<>>
    ELSE <<MultEntry(A, B, i, j)>> \o MultRowFrom(A, B, i, j + 1)

RECURSIVE MultRowsFrom(_, _, _)
MultRowsFrom(A, B, i) ==
    IF i > 4 THEN <<>>
    ELSE <<MultRowFrom(A, B, i, 1)>> \o MultRowsFrom(A, B, i + 1)

Mult(A, B) == MultRowsFrom(A, B, 1)

\* getRadian(deg): Math.PI * deg / 180.  Math.PI is
\* 7074237752028440 * 2^-51.
MathPI == [s |-> 1, m |-> <<11544, 10376, 2029, 201>>, e |-> -51]

getRadian(deg) == DDiv(DMul(MathPI, deg), DFromInt(180))

\* Angles (degrees) the model rotates by: whole quarter turns.
Angles == {90, 180}

\* The radians of the whole quarter turns from -180 to 180 degrees.
QuarterRadians == [q \in -2..2 |-> getRadian(DFromInt(90 * q))]

QuarterTurns(rad) == CHOOSE q \in -2..2 : QuarterRadians[q] = rad

\* Math.cos and Math.sin at the radians of a whole number of quarter turns,
\* taken as the exact values 0, 1, -1 (binary64 gives 6.1e-17 for cos(pi/2)).
Cos(rad) ==
    LET q == QuarterTurns(rad) % 4
    IN  IF q = 0 THEN One ELSE IF q = 2 THEN DFromInt(-1) ELSE Zero

Sin(rad) ==
    LET q == QuarterTurns(rad) % 4
    IN  IF q = 1 THEN One ELSE IF q = 3 THEN DFromInt(-1) ELSE Zero

DNeg(a) == [a EXCEPT !.s = -a.s]

\* SFMatrix4f.rotationX(a)
rotationX(a) ==
    << <<One, Zero, Zero, Zero>>,
       <<Zero, Cos(a), DNeg(Sin(a)), Zero>>,
       <<Zero, Sin(a), Cos(a), Zero>>,
       <<Zero, Zero, Zero, One>> >>

\* SFMatrix4f.rotationY(a)
rotationY(a) ==
    << <<Cos(a), Zero, Sin(a), Zero>>,
       <<Zero, One, Zero, Zero>>,
       <<DNeg(Sin(a)), Zero, Cos(a), Zero>>,
       <<Zero, Zero, Zero, One>> >>

\* SFMatrix4f.scale(new SFVec3f(x, y, z))
scale(x, y, z) ==
    << <<x, Zero, Zero, Zero>>,
       <<Zero, y, Zero, Zero>>,
       <<Zero, Zero, z, Zero>>,
       <<Zero, Zero, Zero, One>> >>

\* View matrices a scene may start with.
ViewA == Mat(<<1, 0, 0, 0>>, <<0, 1, 0, 0>>, <<0, 0, 1, -10>>, <<0, 0, 0, 1>>)
ViewB == Mat(<<0, 0, 7, 1>>, <<0, 3, 0, 2>>, <<-5, 0, 0, -4>>, <<0, 0, 0, 1>>)

InitialViews == {ViewA, ViewB}

NoAnim == [active |-> FALSE, target |-> <<>>, seconds |-> Zero]

NoCall ==
    [op |-> "none", axis |-> "", angle |-> Zero, zoomValue |-> Zero,
     animate |-> FALSE, duration |-> Zero, threw |-> "none",
     built |-> FALSE, scalar |-> Zero,
     viewBefore |-> <<>>, renderBefore |-> FALSE, animBefore |-> NoAnim,
     viewAfter |-> <<>>, renderAfter |-> FALSE, animAfter |-> NoAnim]

\* ---- _updateViewpoint(matrix, animate, duration): the view, the
\* transition and the dirty flag after it
UpdateViewpoint(matrix, animate, duration) ==
    [view |-> IF animate THEN viewMatrix ELSE matrix,
     anim |-> IF animate
              THEN [active |-> TRUE, target |-> matrix,
                    seconds |-> DDiv(duration, DFromInt(1000))]
              ELSE anim,
     render |-> TRUE]

\* ---- rotate: the rotation matrix for the axis, or the RangeError
RotationFor_YForOthers(axis, rad) ==
    IF axis = "x" THEN [threw |-> "none", matrix |-> rotationX(rad)]
    ELSE [threw |-> "none", matrix |-> rotationY(rad)]

RotationFor(axis, rad) ==
    IF axis = "x" THEN [threw |-> "none", matrix |-> rotationX(rad)]
    ELSE IF axis = "y" THEN [threw |-> "none", matrix |-> rotationY(rad)]
    ELSE [threw |-> "RangeError", matrix |-> <<>>]

\* What a call that throws before _updateViewpoint leaves of the view.
Untouched == [view |-> viewMatrix, anim |-> anim, render |-> needRender]

\* The record of a camera call: its arguments, what it threw, and the
\* view, the transition and the dirty flag before and after it (up).
CallRecord(op, axis, angle, zoomValue, animate, duration, threw, scalar, up) ==
    [op |-> op, axis |-> axis, angle |-> angle, zoomValue |-> zoomValue,
     animate |-> animate, duration |-> duration, threw |-> threw,
     built |-> threw = "none", scalar |-> scalar,
     viewBefore |-> viewMatrix, renderBefore |-> needRender,
     animBefore |-> anim,
     viewAfter |-> up.view, renderAfter |-> up.render, animAfter |-> up.anim]

\* The state a camera call leaves: its record r becomes lastCall.
Called(r) ==
    /\ viewMatrix' = r.viewAfter
    /\ needRender' = r.renderAfter
    /\ anim' = r.animAfter
    /\ lastCall' = r
    /\ prevCall' = lastCall

\* rotate(axis, angle, animate, duration), statement by statement.
RotateCall(axis, angle, animate, duration) ==
    \E rot \in {RotationFor(axis, getRadian(angle))} :
        IF rot.threw # "none"
        THEN Called(CallRecord("rotate", axis, angle, Zero, animate, duration,
                               rot.threw, Zero, Untouched))
        ELSE \E newMatrix \in {Mult(viewMatrix, rot.matrix)} :
             \E up \in {UpdateViewpoint(newMatrix, animate, duration)} :
                 Called(CallRecord("rotate", axis, angle, Zero, animate,
                                   duration, "none", Zero, up))

Axes == {"x", "y", "z"}

DefaultDuration == DFromInt(400)

Rotate(axis, angle, animate) ==
    /\ ops < MaxRotateCalls
    /\ ops' = ops + 1
    /\ \E deg \in {DFromInt(angle)} :
           RotateCall(axis, deg, animate, DefaultDuration)
    /\ UNCHANGED <<initialView, now, timers, turns, turnLog>>
    /\ UNCHANGED nonCamVars

\* ---- zoom: scalar = zoomValue > 0 ? (1 * zoomValue) : Math.abs(1 / zoomValue)
ZoomScalar_NoReciprocal(zoomValue) ==
    IF DLess(Zero, zoomValue) THEN DMul(One, zoomValue) ELSE DAbs(zoomValue)

ZoomScalar(zoomValue) ==
    IF DLess(Zero, zoomValue) THEN DMul(One, zoomValue)
    ELSE DAbs(DDiv(One, zoomValue))

\* Zoom factors the model calls zoom with (0 gives 1 / 0 = Infinity).
ZoomValues == {-3, -2, 2, 3}

\* zoom(zoomValue, animate, duration), statement by statement.
ZoomCall(zoomValue, animate, duration) ==
    \E scalar \in {ZoomScalar(zoomValue)} :
    \E newMatrix \in {Mult(viewMatrix, scale(scalar, scalar, scalar))} :
    \E up \in {UpdateViewpoint(newMatrix, animate, duration)} :
        Called(CallRecord("zoom", "", Zero, zoomValue, animate, duration,
                          "none", scalar, up))

Zoom(zoomValue, animate) ==
    /\ ops < MaxZoomCalls
    /\ ops' = ops + 1
    /\ \E k \in {DFromInt(zoomValue)} : ZoomCall(k, animate, DefaultDuration)
    /\ UNCHANGED <<initialView, now, timers, turns, turnLog>>
    /\ UNCHANGED nonCamVars

\* ---- resetView: the engine puts the Viewpoint tag's view back
ResetView ==
    /\ ops < MaxZoomCalls
    /\ ops' = ops + 1
    /\ Called(CallRecord("resetView", "", Zero, Zero, FALSE, Zero, "none", Zero,
                         [view |-> initialView, anim |-> anim, render |-> TRUE]))
    /\ UNCHANGED <<initialView, now, timers, turns, turnLog>>
    /\ UNCHANGED nonCamVars

\* ---- the engine: a transition reaches its target; a frame is rendered
AnimationDone ==
    /\ anim.active
    /\ viewMatrix' = anim.target
    /\ anim' = NoAnim
    /\ needRender' = TRUE
    /\ UNCHANGED <<initialView, lastCall, prevCall, ops, now, timers, turns,
                   turnLog>>
    /\ UNCHANGED nonCamVars

RenderFrame ==
    /\ needRender
    /\ needRender' = FALSE
    /\ UNCHANGED <<viewMatrix, initialView, anim, lastCall, prevCall, ops,
                   now, timers, turns, turnLog>>
    /\ UNCHANGED nonCamVars

\* ---- rotateRoundY
\* Durations (ms) the model calls rotateRoundY with; 4000 is the default.
DefaultTurnDuration == 4000

TurnDurations == {DefaultTurnDuration, 1}

\* var halfTime = duration / 2;
HalfTime_Quarter(duration) == DDiv(duration, DFromInt(4))

HalfTime(duration) == DDiv(duration, DFromInt(2))

\* Instants the clock can show.
Instants ==
    (0..MaxNow) \cup
    { (DefaultTurnDuration \div 2) - 1, DefaultTurnDuration \div 2 }

LogEntry(r, via) ==
    [at |-> now, via |-> via, axis |-> r.axis, angle |-> r.angle,
     animate |-> r.animate, duration |-> r.duration, threw |-> r.threw]

RotateRoundY(d) ==
    /\ ops < MaxRotateCalls
    /\ ops' = ops + 1
    /\ \E halfTime \in {HalfTime(DFromInt(d))} :
           /\ RotateCall("y", DFromInt(180), TRUE, halfTime)
           /\ timers' = timers \cup
                  {[turn |-> Len(turns) + 1, set |-> now, delay |-> halfTime,
                    halfTime |-> halfTime]}
    /\ turns' = Append(turns, [duration |-> d, start |-> now])
    /\ turnLog' = Append(turnLog, <<LogEntry(lastCall', "call")>>)
    /\ UNCHANGED <<initialView, now>>
    /\ UNCHANGED nonCamVars

\* setTimeout runs a callback once its delay has passed, not before.
TimerFire(t) ==
    /\ t \in timers
    /\ ~DLess(DFromInt(now - t.set), t.delay)
    /\ timers' = timers \ {t}
    /\ RotateCall("y", DFromInt(180), TRUE, t.halfTime)
    /\ turnLog' = [turnLog EXCEPT
           ![t.turn] = Append(@, LogEntry(lastCall', "timer"))]
    /\ UNCHANGED <<initialView, ops, now, turns>>
    /\ UNCHANGED nonCamVars

\* Time passes; only a held timer can tell.
Tick(t) ==
    /\ timers # {}
    /\ t \in Instants
    /\ t > now
    /\ now' = t
    /\ UNCHANGED <<viewMatrix, initialView, needRender, anim, lastCall,
                   prevCall, ops, timers, turns, turnLog>>
    /\ UNCHANGED nonCamVars

CamStart(views, flags) ==
    /\ viewMatrix \in views
    /\ initialView = viewMatrix
    /\ needRender \in flags
    /\ anim = NoAnim
    /\ lastCall = NoCall
    /\ prevCall = NoCall
    /\ ops = 0
    /\ now = 0
    /\ timers = {}
    /\ turns = <<>>
    /\ turnLog = <<>>

IdleCam == CamStart({ViewA}, {FALSE})

NextZoom ==
    \/ \E k \in ZoomValues, animate \in BOOLEAN : Zoom(k, animate)
    \/ ResetView
    \/ AnimationDone
    \/ RenderFrame

NextRotate ==
    \/ \E axis \in Axes, angle \in Angles, animate \in BOOLEAN :
           Rotate(axis, angle, animate)
    \/ \E d \in TurnDurations : RotateRoundY(d)
    \/ \E t \in timers : TimerFire(t)
    \/ \E t \in Instants : Tick(t)
    \/ AnimationDone
    \/ RenderFrame

InitZ == CamStart(InitialViews, BOOLEAN) /\ IdleLoad /\ IdleShape

SpecZoom == InitZ /\ [][NextZoom]_vars

InitR == CamStart({ViewB}, {TRUE}) /\ IdleLoad /\ IdleShape

SpecRotate == InitR /\ [][NextRotate]_vars

Init == InitLoad /\ IdleShape /\ IdleCam

InitS == InitShape /\ IdleLoad /\ IdleCam

SpecShape == InitS /\ [][NextShape]_vars

Spec == Init /\ [][NextLoad]_vars

\* ======================================================================
\* Properties
\* ======================================================================

\* C1: for a controller constructed over N > 0 inline elements, inlineLoaded
\* is pending exactly while fewer than N load events have been delivered to
\* the constructor's listeners, and is fulfilled from the N-th delivery on.
C1_PendingUntilNthLoad ==
    (constructed /\ inlineCount > 0) =>
        inlineLoaded.state =
            (IF delivered < inlineCount THEN "pending" ELSE "fulfilled")

\* The N-th of N >= 2 load events has been delivered and fulfilled the signal.
C1_Witness ==
    /\ constructed
    /\ inlineCount >= 2
    /\ delivered = inlineCount
    /\ inlineLoaded.state = "fulfilled"

\* C2: inlineLoaded settles at most once, is never rejected, no load
\* listener raises an error, and once it has settled it stays fulfilled,
\* whatever further load events call resolve again.
C2_ResolvedOnceAndTerminal ==
    /\ inlineLoaded.settles <= 1
    /\ inlineLoaded.state # "rejected"
    /\ listenerErrors = 0
    /\ (inlineLoaded.settles = 1 => inlineLoaded.state = "fulfilled")

\* A load event past the N-th has incremented the counter and called
\* resolve a second time.
C2_Witness ==
    /\ inlineCount > 0
    /\ delivered > inlineCount
    /\ loadedCnt = delivered
    /\ resolveCalls >= 2
    /\ inlineLoaded = [state |-> "fulfilled", settles |-> 1]

\* C3: over a scene element without inline elements the constructor returns
\* with inlineLoaded fulfilled, no load event delivered and no load listener
\* registered.
C3_ZeroInlinesResolvedAtConstruction ==
    (constructed /\ inlineCount = 0) =>
        /\ inlineLoaded.state = "fulfilled"
        /\ delivered = 0
        /\ listeners = {}

\* The constructor has returned over a scene without inline elements.
C3_Witness ==
    /\ constructed
    /\ inlineCount = 0
    /\ resolveCalls = 1
    /\ inlineLoaded = [state |-> "fulfilled", settles |-> 1]

\* C4: a callback is attached to target elements only when every inline
\* element present at construction has fired its load event at least once.
C4_AttachedOnlyAfterAllLoaded ==
    attached # {} => \A i \in 1..inlineCount : fired[i] >= 1

\* C9: while some inline element present at construction has fired no load
\* event, inlineLoaded is pending and no callback is attached.
C9_UnloadedInlineBlocks ==
    (constructed /\ \E i \in 1..inlineCount : fired[i] = 0) =>
        /\ inlineLoaded.state = "pending"
        /\ attached = {}

\* C7: a restoreShapeColor that follows one or more highlightShape calls on
\* an element whose stash was empty before the first of them leaves the
\* appearance as it was before that first call, and the stash empty.
C7_HighlightsThenRestore ==
    (lastShapeOp.op = "restore" /\ lastShapeOp.runLen >= 1) =>
        /\ slot[lastShapeOp.el] = lastShapeOp.runStart
        /\ Falsy(origAppearance[lastShapeOp.el])

\* Two or more highlights changed the appearance and the restore brought
\* the original element back.
C7_Witness ==
    /\ lastShapeOp.op = "restore"
    /\ lastShapeOp.runLen >= 2
    /\ lastShapeOp.threw = "none"
    /\ HasAppearance(lastShapeOp.runStart)
    /\ lastShapeOp.slotBefore # lastShapeOp.runStart
    /\ slot[lastShapeOp.el] = lastShapeOp.runStart

\* C10 as stated: restoreShapeColor on an element whose stash is empty
\* raises no error, clears the appearance and leaves the stash empty.
C10_RestoreEmptyStash_AsStated ==
    (lastShapeOp.op = "restore" /\ Falsy(lastShapeOp.stashBefore)) =>
        /\ lastShapeOp.threw = "none"
        /\ ~HasAppearance(slot[lastShapeOp.el])
        /\ slot[lastShapeOp.el] # lastShapeOp.slotBefore
        /\ Falsy(origAppearance[lastShapeOp.el])

\* C10 as amended: restoreShapeColor on an element whose stash is empty and
\* that still has an appearance child raises no error and replaces that
\* child by what the absent stash value parses to (nothing for null, the
\* text "undefined" for undefined), so no appearance element is left; the
\* stash is null afterwards.
C10_RestoreEmptyStashClears ==
    (/\ lastShapeOp.op = "restore"
     /\ Falsy(lastShapeOp.stashBefore)
     /\ HasAppearance(lastShapeOp.slotBefore)) =>
        /\ lastShapeOp.threw = "none"
        /\ slot[lastShapeOp.el] =
             (IF lastShapeOp.stashBefore = Undefined
              THEN TextNode("undefined") ELSE Removed)
        /\ ~HasAppearance(slot[lastShapeOp.el])
        /\ origAppearance[lastShapeOp.el] = Null

\* A second restore after a highlight and its restore: the stash is null
\* and the restored appearance element is removed.
C10_Witness ==
    /\ lastShapeOp.op = "restore"
    /\ lastShapeOp.stashBefore = Null
    /\ HasAppearance(lastShapeOp.slotBefore)
    /\ slot[lastShapeOp.el] = Removed

\* ---------------------------------------------------------------------
\* C5: a rotate call whose axis is neither 'x' nor 'y' throws a
\* RangeError with no rotation matrix built, and the step leaves the view
\* matrix, the needRender flag and the animated transition as they were.
C5_BadAxisThrowsAndLeavesView ==
    [][(ops' = ops + 1 /\ lastCall'.op = "rotate"
            /\ lastCall'.axis \notin {"x", "y"})
         => /\ lastCall'.threw = "RangeError"
            /\ ~lastCall'.built
            /\ viewMatrix' = viewMatrix
            /\ needRender' = needRender
            /\ anim' = anim]_vars

\* A rotate about 'z' has been called while a frame was still due.
C5_Witness ==
    /\ lastCall.op = "rotate"
    /\ lastCall.axis = "z"
    /\ lastCall.threw = "RangeError"
    /\ lastCall.renderBefore
    /\ needRender

\* ---------------------------------------------------------------------
\* The last two camera calls were zoom(k) and then zoom(-k), both instant,
\* the second starting from the view the first left.
ZoomThenOpposite ==
    /\ prevCall.op = "zoom" /\ lastCall.op = "zoom"
    /\ ~prevCall.animate /\ ~lastCall.animate
    /\ lastCall.zoomValue = DNeg(prevCall.zoomValue)
    /\ lastCall.viewBefore = prevCall.viewAfter

\* C6 as stated: zoom(k) then zoom(-k) leaves the view matrix equal to
\* the starting matrix, the first call scaling by k and the second by
\* 1/|k|.
C6_ZoomRoundTrip_AsStated ==
    ZoomThenOpposite =>
        /\ lastCall.viewAfter = prevCall.viewBefore
        /\ prevCall.scalar = prevCall.zoomValue
        /\ lastCall.scalar = DDiv(One, DAbs(prevCall.zoomValue))

IsPowerOfTwo(a) == a.m = BShl(<<1>>, MantBits - 1)

\* C6 amended: in zoom(k) then zoom(-k) the call with the positive factor
\* scales by |k| and the other by 1/|k|, in either order; every entry of
\* the view matrix ends within 3 units in the last place of its starting
\* value, and exactly on it when |k| is a power of two.
C6_ZoomRoundTripWithinUlps ==
    ZoomThenOpposite =>
        LET k == DAbs(prevCall.zoomValue)
            pos == IF prevCall.zoomValue.s = 1 THEN prevCall ELSE lastCall
            neg == IF prevCall.zoomValue.s = 1 THEN lastCall ELSE prevCall
        IN  /\ pos.scalar = k
            /\ neg.scalar = DDiv(One, k)
            /\ viewMatrix = lastCall.viewAfter \/ lastCall.animBefore.active
            /\ \A i \in 1..4, j \in 1..4 :
                   WithinUlps(lastCall.viewAfter[i][j],
                              prevCall.viewBefore[i][j], 3)
            /\ IsPowerOfTwo(k) => lastCall.viewAfter = prevCall.viewBefore

\* zoom(-3) then zoom(3) has come back next to, not onto, the start.
C6_Witness ==
    /\ ZoomThenOpposite
    /\ prevCall.zoomValue = DFromInt(-3)
    /\ lastCall.viewAfter # prevCall.viewBefore
    /\ viewMatrix = lastCall.viewAfter

\* ---------------------------------------------------------------------
\* C8: every rotateRoundY(d) issues an animated 180-degree rotate about
\* 'y' with duration d/2 in the call itself and one more, the same, from
\* its timer and from nowhere else: at most two in all, the second
\* outstanding exactly while the timer is held, and not issued before d/2
\* ms have passed since the first.
C8_FullTurnIsTwoHalfTurns ==
    /\ Len(turnLog) = Len(turns)
    /\ \A i \in 1..Len(turns) :
           LET log == turnLog[i]
               d == turns[i].duration
           IN  /\ Len(log) \in {1, 2}
               /\ (Len(log) = 1) = (\E t \in timers : t.turn = i)
               /\ \A j \in 1..Len(log) :
                      /\ log[j].axis = "y"
                      /\ log[j].angle = DFromInt(180)
                      /\ log[j].animate
                      /\ log[j].threw = "none"
                      /\ DMul(log[j].duration, DFromInt(2)) = DFromInt(d)
               /\ log[1].via = "call"
               /\ log[1].at = turns[i].start
               /\ Len(log) = 2 =>
                      /\ log[2].via = "timer"
                      /\ 2 * (log[2].at - log[1].at) >= d

\* A default full turn has issued its second half turn, at 2000 ms.
C8_Witness ==
    \E i \in 1..Len(turns) :
        /\ turns[i].duration = DefaultTurnDuration
        /\ Len(turnLog[i]) = 2
        /\ turnLog[i][2].at - turnLog[i][1].at = 2000

=============================================================================
